---- MODULE Spec2Model ----
(***************************************************************************)
(* update-flake-inputs-gitea: the update orchestration workflow.           *)
(*                                                                         *)
(* GiteaService (worktree, _make_request, commit_changes,                  *)
(* create_pull_request, _merge_pull_request) and FlakeService              *)
(* (update_flake_input) are translated from the Python sources.  The loop  *)
(* of process_flake_updates lives in cli.py, which is not among the        *)
(* sources: it is modelled from the specification (section 4.4) and from   *)
(* what tests/test_process_flake_updates.py observes of it.                *)
(***************************************************************************)
EXTENDS Integers, Sequences, FiniteSets, TLC

\* ---------------------------------------------------------------- bounds
MaxRuns == 2
MaxPairs == 2
ScriptLen == 6
MaxTokens == 2

\* ------------------------------------------------------ program constants
HTTP_CONFLICT == 409
max_retries == 5
NoStatus == 0

BaseBranch == "main"
InitialCommit == "Initial commit"
TryAgain == "Please try again later"
MaxRetriesMsg == "Max retries reached for merge"

\* The flake files of the working tree in the order the walk meets them, and
\* the input names in the order of the lock file's nodes.
FlakeFiles == <<"flake.nix", "subflake/flake.nix">>
InputNames == <<"flake-utils", "nixos-hardware">>

\* ---------------------------------------------------------- exceptions
NoExc == [type |-> "none", status |-> NoStatus, msg |-> "", at |-> 0]

\* APIError(message, status_code=None); `at` is the number of the request of
\* the current call whose response raised it (0: not raised by a response).
APIError(msg, status_code, at) ==
    [type |-> "APIError", status |-> status_code, msg |-> msg, at |-> at]

OtherError(type, at) == [type |-> type, status |-> NoStatus, msg |-> "", at |-> at]

\* ----------------------------------------------------- the HTTP transport
\* What urlopen and the body of the response can be: a JSON body (with its
\* "message" field), an HTTP error status, a transport failure (URLError,
\* OSError, a timeout), a body that is not JSON.
Json(message) == [k |-> "json", code |-> 200, message |-> message]
HttpError(code) == [k |-> "http", code |-> code, message |-> ""]
UrlError == [k |-> "urlerror", code |-> NoStatus, message |-> ""]
Malformed == [k |-> "malformed", code |-> 200, message |-> ""]

\* _make_request: the parsed JSON, or the exception that leaves it.  Only
\* HTTPError, URLError and OSError are wrapped; json.loads raises a
\* ValueError (JSONDecodeError) that no except clause names.
MakeRequest(raw, at) ==
    CASE raw.k = "json" -> [ret |-> TRUE, message |-> raw.message, exc |-> NoExc]
      [] raw.k = "http" ->
            [ret |-> FALSE, message |-> "",
             exc |-> APIError("API request failed", raw.code, at)]
      [] raw.k = "urlerror" ->
            [ret |-> FALSE, message |-> "",
             exc |-> APIError("API request failed", NoStatus, at)]
      [] OTHER -> [ret |-> FALSE, message |-> "", exc |-> OtherError("ValueError", at)]

\* ------------------------------------------------- _merge_pull_request
\* A mutant of MergeAttempt: the retry budget is one attempt short.
MergeAttemptShortBudget(attempt, r, last_error) ==
    IF ~r.ret
    THEN IF r.exc.type = "APIError"
         THEN IF attempt >= max_retries - 2
              THEN [next |-> "raise", last_error |-> r.exc, exc |-> r.exc, cause |-> NoExc]
              ELSE [next |-> "continue", last_error |-> r.exc, exc |-> NoExc, cause |-> NoExc]
         ELSE [next |-> "raise", last_error |-> last_error, exc |-> r.exc, cause |-> NoExc]
    ELSE IF r.message = TryAgain
         THEN IF attempt < max_retries - 2
              THEN [next |-> "continue", last_error |-> last_error, exc |-> NoExc,
                    cause |-> NoExc]
              ELSE [next |-> "raise", last_error |-> last_error,
                    exc |-> APIError(MaxRetriesMsg, NoStatus, 0), cause |-> last_error]
         ELSE [next |-> "return", last_error |-> last_error, exc |-> NoExc, cause |-> NoExc]

\* A mutant of MergeAttempt: the last attempt's error is replaced by the
\* max-retries error instead of being re-raised.
MergeAttemptNoReraise(attempt, r, last_error) ==
    IF ~r.ret
    THEN IF r.exc.type = "APIError"
         THEN IF attempt = max_retries - 1
              THEN [next |-> "raise", last_error |-> r.exc,
                    exc |-> APIError(MaxRetriesMsg, NoStatus, 0), cause |-> r.exc]
              ELSE [next |-> "continue", last_error |-> r.exc, exc |-> NoExc, cause |-> NoExc]
         ELSE [next |-> "raise", last_error |-> last_error, exc |-> r.exc, cause |-> NoExc]
    ELSE IF r.message = TryAgain
         THEN IF attempt < max_retries - 1
              THEN [next |-> "continue", last_error |-> last_error, exc |-> NoExc,
                    cause |-> NoExc]
              ELSE [next |-> "raise", last_error |-> last_error,
                    exc |-> APIError(MaxRetriesMsg, NoStatus, 0), cause |-> last_error]
         ELSE [next |-> "return", last_error |-> last_error, exc |-> NoExc, cause |-> NoExc]

\* A mutant of MergeAttempt: an answer that is not 'not ready' is followed
\* by another request while attempts are left.
MergeAttemptRetriesAfterSuccess(attempt, r, last_error) ==
    IF ~r.ret
    THEN IF r.exc.type = "APIError"
         THEN IF attempt = max_retries - 1
              THEN [next |-> "raise", last_error |-> r.exc, exc |-> r.exc, cause |-> NoExc]
              ELSE [next |-> "continue", last_error |-> r.exc, exc |-> NoExc, cause |-> NoExc]
         ELSE [next |-> "raise", last_error |-> last_error, exc |-> r.exc, cause |-> NoExc]
    ELSE IF attempt < max_retries - 1
         THEN [next |-> "continue", last_error |-> last_error, exc |-> NoExc,
               cause |-> NoExc]
         ELSE IF r.message = TryAgain
         THEN [next |-> "raise", last_error |-> last_error,
               exc |-> APIError(MaxRetriesMsg, NoStatus, 0), cause |-> last_error]
         ELSE [next |-> "return", last_error |-> last_error, exc |-> NoExc, cause |-> NoExc]

\* One pass of the body of `for attempt in range(max_retries)`; r is what
\* _make_request gave.  next: continue (sleep 2 s, next attempt), return, or
\* raise exc (`raise ... from last_error` sets its cause).
MergeAttempt(attempt, r, last_error) ==
    IF ~r.ret
    THEN IF r.exc.type = "APIError"
         THEN IF attempt = max_retries - 1
              THEN [next |-> "raise", last_error |-> r.exc, exc |-> r.exc, cause |-> NoExc]
              ELSE [next |-> "continue", last_error |-> r.exc, exc |-> NoExc, cause |-> NoExc]
         ELSE [next |-> "raise", last_error |-> last_error, exc |-> r.exc, cause |-> NoExc]
    ELSE IF r.message = TryAgain
         THEN IF attempt < max_retries - 1
              THEN [next |-> "continue", last_error |-> last_error, exc |-> NoExc,
                    cause |-> NoExc]
              ELSE [next |-> "raise", last_error |-> last_error,
                    exc |-> APIError(MaxRetriesMsg, NoStatus, 0), cause |-> last_error]
         ELSE [next |-> "return", last_error |-> last_error, exc |-> NoExc, cause |-> NoExc]

\* ------------------------------------------------ process_flake_updates
\* Step 1 of the loop: the branch of an input, a fixed prefix and its name.
BranchName(input_name) == "update-" \o input_name

\* The commit message, the title and the body of an input's pull request.
CommitMessage(input_name) == "Update " \o input_name
PrTitle(input_name) == "Update " \o input_name
PrBody(pair) == [input |-> pair.input, flake |-> pair.flake]

NoChangesLine(pair) ==
    "No changes for input " \o pair.input \o " in " \o pair.flake
FailureLine(pair) ==
    "Failed to update input " \o pair.input \o " in " \o pair.flake

\* What discovery hands to the loop: each flake with its inputs, flattened
\* to (flake, input) pairs in discovery order.
Range(s) == {s[k] : k \in DOMAIN s}
AllPairs ==
    [k \in 1..(Len(FlakeFiles) * Len(InputNames)) |->
        [flake |-> FlakeFiles[((k - 1) \div Len(InputNames)) + 1],
         input |-> InputNames[((k - 1) % Len(InputNames)) + 1]]]
Discoveries ==
    {SelectSeq(AllPairs, LAMBDA p : p \in S) :
        S \in {T \in SUBSET Range(AllPairs) : Cardinality(T) <= MaxPairs}}

\* ------------------------------------------------------------ the forge
\* POST /repos/{owner}/{repo}/pulls as create_pull_request expects it: 409
\* when an open pull request for (head, base) exists, the new pull request
\* otherwise; or a failure of the forge or of the transport.
OpenFor(open, head, base) == {p \in open : p.head = head /\ p.base = base}

\* A mutant of ForgePostPulls: the forge accepts a duplicate.
ForgePostPullsNoConflict(open, head, base) ==
    {Json(""), HttpError(500), UrlError, Malformed}

ForgePostPulls(open, head, base) ==
    (IF OpenFor(open, head, base) # {} THEN {HttpError(HTTP_CONFLICT)} ELSE {Json("")})
        \cup {HttpError(500), UrlError, Malformed}

NewPullRequest(open, head, base, title, body) ==
    [number |-> Cardinality(open) + 1, state |-> "open", head |-> head,
     base |-> base, title |-> title, body |-> body]

\* POST /repos/{owner}/{repo}/pulls/{number}/merge
MergeResponses == {Json(""), Json(TryAgain), HttpError(500), UrlError, Malformed}

\* ---------------------------------------------------------------- state
VARIABLES
    pairs,          \* the (flake, input) pairs of the run, in discovery order
    stale,          \* the pairs whose lock entry is behind upstream
    autoMerge,      \* the auto-merge flag of the command line
    run,            \* the number of the current run of process_flake_updates
    idx,            \* the index in pairs of the pair being processed
    pc,             \* where the run stands
    status,         \* the state of each pair in this run
    exc,            \* the exception propagating out of the current iteration
    tmpDir,         \* the temporary directory exists
    wtDir,          \* the worktree's checkout directory exists
    wtAdmin,        \* the branches git has a worktree registered for
    worktree_path,  \* worktree()'s local: "" is None
    removeCalls,    \* `git worktree remove --force` runs in this iteration
    cleanupRaised,  \* leaving the scope raised an exception of its own
    localBranches,  \* the local branches, each with its commits, oldest first
    wtChanged,      \* the worktree's lock file differs from its HEAD
    updateOut,      \* what update_flake_input did in this iteration
    has_changes,    \* what commit_changes returned in this iteration
    gitCalls,       \* the git commands commit_changes ran, with their exit codes
    itCommits,      \* the commits made in this iteration
    itPushes,       \* the pushes made in this iteration
    itPrCalls,      \* the create_pull_request calls of this iteration
    runPrCalls,     \* the number of create_pull_request calls of this run
    remote,         \* the remote's branches, each with its commits
    prs,            \* the open pull requests the forge holds
    prsBefore,      \* prs when the current create_pull_request call began
    prsAtRunStart,  \* prs when the current run began
    prevFailed,     \* a pair of the run before this one ended FAILED
    prResp,         \* the answer to this iteration's POST /pulls
    prOutcome,      \* how this iteration's create_pull_request ended
    attempt,        \* _merge_pull_request's loop variable
    last_error,     \* _merge_pull_request's last_error
    mergeSent,      \* the merge requests sent by the current merge call
    mergeOutcome,   \* how the current _merge_pull_request call ended
    script,         \* the forge's answers to the merge requests, when fixed
    fault,          \* a git command of this iteration broke its contract
    logs            \* the log lines of this run

\* One call of a forge-client operation outside the loop.
VARIABLES
    op,             \* the operation called: "none" before any call
    responses,      \* the forge's answers to the call's requests, in order
    called,         \* the call has run
    result,         \* how the call ended
    caught,         \* the exception the call caught and did not re-raise
    clientLogs      \* the log lines the call wrote

\* One call of FlakeService.discover_flake_files.
VARIABLES
    tokens,           \* the tokens the exclude directive was written from
    exclude_patterns, \* the exclude directive, a string of characters
    lockFiles,        \* the paths of the lock files that exist
    metadata,         \* per manifest, what `nix flake metadata` answers
    discovery         \* how the call ended: its flakes, or its error

vars ==
    <<pairs, stale, autoMerge, run, idx, pc, status, exc, tmpDir, wtDir, wtAdmin,
      worktree_path, removeCalls, cleanupRaised, localBranches, wtChanged, updateOut, has_changes,
      gitCalls, itCommits, itPushes, itPrCalls, runPrCalls, remote, prs, prsBefore,
      prsAtRunStart, prevFailed, prResp, prOutcome, attempt, last_error, mergeSent,
      mergeOutcome, script, fault, logs,
      op, responses, called, result, caught, clientLogs,
      tokens, exclude_patterns, lockFiles, metadata, discovery>>

envVars == <<pairs, stale, autoMerge, script>>
clientVars == <<op, responses, called, result, caught, clientLogs>>
discVars == <<tokens, exclude_patterns, lockFiles, metadata, discovery>>
runVars == <<run, idx, status, runPrCalls, prsAtRunStart, prevFailed>>
wtVars == <<tmpDir, wtDir, wtAdmin, worktree_path, removeCalls, cleanupRaised>>
gitVars == <<localBranches, wtChanged, has_changes, gitCalls, itCommits, itPushes, remote, fault>>
prVars == <<itPrCalls, prs, prsBefore, prResp, prOutcome>>
mergeVars == <<attempt, last_error, mergeSent, mergeOutcome>>

NoMerge == [kind |-> "none", exc |-> NoExc, cause |-> NoExc]

\* No forge-client operation has been called outside the loop.
NoResult == [kind |-> "none", value |-> "none", exc |-> NoExc]

NoClientCall ==
    /\ op = "none"
    /\ responses = <<>>
    /\ called = FALSE
    /\ result = NoResult
    /\ caught = NoExc
    /\ clientLogs = {}

\* The state of one iteration before it starts: what an iteration leaves in
\* these is gone when it ends.
FreshIteration ==
    /\ exc' = NoExc
    /\ worktree_path' = ""
    /\ removeCalls' = 0
    /\ cleanupRaised' = FALSE
    /\ wtChanged' = FALSE
    /\ updateOut' = "none"
    /\ has_changes' = "none"
    /\ gitCalls' = <<>>
    /\ itCommits' = <<>>
    /\ itPushes' = <<>>
    /\ itPrCalls' = <<>>
    /\ prResp' = "none"
    /\ prOutcome' = "none"
    /\ prsBefore' = prs
    /\ attempt' = 0
    /\ last_error' = NoExc
    /\ mergeSent' = 0
    /\ mergeOutcome' = NoMerge
    /\ fault' = FALSE

\* The loop before its first iteration, in a fresh checkout of a repository
\* whose only branch is the base branch.
InitLoop ==
    /\ run = 1
    /\ idx = 0
    /\ pc = "loop"
    /\ status = [k \in DOMAIN pairs |-> "DISCOVERED"]
    /\ exc = NoExc
    /\ tmpDir = FALSE
    /\ wtDir = FALSE
    /\ wtAdmin = {}
    /\ worktree_path = ""
    /\ removeCalls = 0
    /\ cleanupRaised = FALSE
    /\ localBranches = (BaseBranch :> <<InitialCommit>>)
    /\ wtChanged = FALSE
    /\ updateOut = "none"
    /\ has_changes = "none"
    /\ gitCalls = <<>>
    /\ itCommits = <<>>
    /\ itPushes = <<>>
    /\ itPrCalls = <<>>
    /\ runPrCalls = 0
    /\ remote = (BaseBranch :> <<InitialCommit>>)
    /\ prs = {}
    /\ prsBefore = {}
    /\ prsAtRunStart = {}
    /\ prevFailed = FALSE
    /\ prResp = "none"
    /\ prOutcome = "none"
    /\ attempt = 0
    /\ last_error = NoExc
    /\ mergeSent = 0
    /\ mergeOutcome = NoMerge
    /\ script = <<>>
    /\ fault = FALSE
    /\ logs = {}

\* discover_flake_files is not being called.
NoDiscovery == [kind |-> "none", flakes |-> <<>>, queried |-> <<>>, exc |-> NoExc]

NoDiscoverCall ==
    /\ tokens = <<>>
    /\ exclude_patterns = <<>>
    /\ lockFiles = {}
    /\ metadata = <<>>
    /\ discovery = NoDiscovery

Init ==
    /\ pairs \in Discoveries
    /\ stale \in SUBSET Range(pairs)
    /\ autoMerge \in BOOLEAN
    /\ InitLoop
    /\ NoClientCall
    /\ NoDiscoverCall

cur == pairs[idx]
branch_name == BranchName(cur.input)

\* The loop boundary: `except` around one pair's processing.
LoopCatchesNothing(e) == FALSE

LoopCatches(e) == TRUE

\* for flake in flakes: for input_name in flake.inputs: the next pair.
LoopNext ==
    /\ pc = "loop"
    /\ idx < Len(pairs)
    /\ idx' = idx + 1
    /\ status' = [status EXCEPT ![idx + 1] = "ATTEMPTED"]
    /\ pc' = "worktree"
    /\ UNCHANGED <<envVars, clientVars, discVars, run, runPrCalls, prsAtRunStart, prevFailed, exc, wtVars,
                   gitVars, updateOut, prVars, mergeVars, logs>>

\* The loop is exhausted: process_flake_updates returns.
LoopEnd ==
    /\ pc = "loop"
    /\ idx = Len(pairs)
    /\ pc' = "done"
    /\ UNCHANGED <<envVars, clientVars, discVars, runVars, exc, wtVars, gitVars, updateOut, prVars,
                   mergeVars, logs>>

\* --------------------------------------------------- GiteaService.worktree
\* `with tempfile.TemporaryDirectory(...)`: the directory is removed when
\* the block is left, by a return or by an exception.
TemporaryDirectoryLeaksOnRaise(raised) == raised

TemporaryDirectoryLeft(raised) == FALSE

\* `git worktree remove --force` with check=False inside
\* contextlib.suppress(SubprocessError, OSError): no outcome of the command
\* raises.
RemovalRaises(outcome) == FALSE

\* Entering the scope: the temporary directory, then `git worktree add
\* <path> -b <branch>` (check=True).  git refuses a branch name that exists.
WorktreeEnter ==
    /\ pc = "worktree"
    /\ \E tmp \in {"ok", "oserror"}, add \in {"ok", "failed"} :
         IF tmp = "oserror"
         THEN \* TemporaryDirectory() raised: worktree_path is None in `finally`
              /\ exc' = OtherError("OSError", 0)
              /\ pc' = "end"
              /\ UNCHANGED <<wtVars, localBranches>>
         ELSE IF add = "failed" \/ branch_name \in DOMAIN localBranches
         THEN \* CalledProcessError: the `with` removes the directory, and
              \* `finally` finds worktree_path set
              /\ worktree_path' = branch_name
              /\ removeCalls' = removeCalls + 1
              /\ exc' = OtherError("CalledProcessError", 0)
              /\ pc' = "end"
              /\ UNCHANGED <<tmpDir, wtDir, wtAdmin, cleanupRaised, localBranches>>
         ELSE /\ worktree_path' = branch_name
              /\ localBranches' =
                    (branch_name :> localBranches[BaseBranch]) @@ localBranches
              /\ tmpDir' = TRUE
              /\ wtDir' = TRUE
              /\ wtAdmin' = wtAdmin \cup {branch_name}
              /\ pc' = "update"
              /\ UNCHANGED <<removeCalls, cleanupRaised, exc>>
    /\ UNCHANGED <<envVars, clientVars, discVars, runVars, logs, wtChanged, has_changes, gitCalls, itCommits, itPushes,
                   remote, fault, updateOut, prVars, mergeVars>>

\* Leaving the scope after the yield, normally or with the body's exception.
WorktreeExit ==
    /\ pc = "exit"
    /\ \E outcome \in {"ok", "failed"} :
         /\ tmpDir' = TemporaryDirectoryLeft(exc # NoExc)
         /\ wtDir' = TemporaryDirectoryLeft(exc # NoExc)
         /\ IF worktree_path # ""
            THEN /\ removeCalls' = removeCalls + 1
                 /\ wtAdmin' = IF outcome = "ok" THEN wtAdmin \ {worktree_path}
                               ELSE wtAdmin
                 /\ cleanupRaised' = RemovalRaises(outcome)
                 /\ exc' = IF RemovalRaises(outcome)
                           THEN OtherError("CalledProcessError", 0) ELSE exc
            ELSE UNCHANGED <<removeCalls, wtAdmin, cleanupRaised, exc>>
    /\ pc' = "end"
    /\ UNCHANGED <<envVars, clientVars, discVars, runVars, worktree_path, gitVars, updateOut, prVars,
                   mergeVars, logs>>

\* --------------------------------------- FlakeService.update_flake_input
\* `nix flake update <input>` in the worktree: the lock entry moves when it
\* is behind upstream; a warning that the input matches nothing changes
\* nothing and raises nothing; a non-zero exit raises FlakeServiceError.
\* The warning update_flake_input logs when the resolver exits 0 and its
\* stderr says the name matches no input of the flake.
WarnLine(pair) ==
    "Failed to update input " \o pair.input \o " in " \o pair.flake
        \o ": does not match any input"

UpdateRaisesOnWarning(out) == out \in {"failed", "warn"}

\* subprocess.run(check=True) raises only on a non-zero exit; the warning
\* comes with exit code 0 and is logged, nothing more.
UpdateRaises(out) == out = "failed"

UpdateFlakeInput ==
    /\ pc = "update"
    /\ \E out \in {"ok", "warn", "failed"} :
         LET warned == out = "warn" /\ cur \notin stale
             warnLogs == IF warned THEN logs \cup {WarnLine(cur)} ELSE logs
         IN  IF UpdateRaises(out)
             THEN /\ exc' = OtherError("FlakeServiceError", 0)
                  /\ updateOut' = "failed"
                  /\ logs' = warnLogs \cup {"Failed to update flake input "
                                               \o cur.input \o " in " \o cur.flake}
                  /\ pc' = "exit"
                  /\ UNCHANGED wtChanged
             ELSE /\ updateOut' = IF cur \in stale THEN "changed" ELSE "unchanged"
                  /\ wtChanged' = (cur \in stale)
                  /\ logs' = warnLogs
                  /\ pc' = "commit"
                  /\ UNCHANGED exc
    /\ UNCHANGED <<envVars, clientVars, discVars, runVars, wtVars, localBranches, has_changes, gitCalls, itCommits,
                   itPushes, remote, fault, prVars, mergeVars>>

\* ------------------------------------------- GiteaService.commit_changes
\* `git diff --cached --quiet`: 0 with nothing staged, 1 with changes
\* staged; 128 when the command itself fails.
DiffExitCodes(staged) == {IF staged THEN 1 ELSE 0, 128}

\* One subprocess.run of git in commit_changes: the subcommand and the exit
\* code it ended with.
GitCall(cmd, returncode) == [cmd |-> cmd, returncode |-> returncode]

\* A mutant of HasChanges: only exit code 1 counts as a change.
HasChangesOnlyOne(returncode) == returncode = 1

\* A mutant of HasChanges: the exit code is not looked at.
HasChangesAlways(returncode) == TRUE

\* A mutant of HasChanges: no exit code counts as a change.
HasChangesNever(returncode) == FALSE

\* has_changes = result.returncode != 0
HasChanges(returncode) == returncode # 0

\* `git commit -m <message>` on the worktree's branch.
GitCommit(commits, message) == Append(commits, message)

\* The identity the commit is made under: GIT_AUTHOR_NAME and
\* GIT_COMMITTER_NAME of the environment passed to `git commit`.
git_author_name == "gitea-actions[bot]"
git_committer_name == "gitea-actions[bot]"

CommitRecord(message) ==
    [message |-> message, author |-> git_author_name,
     committer |-> git_committer_name]

\* A mutant of GitPushForce: the push leaves the remote as it was.
GitPushNothing(rem, branch, commits) == rem

\* A mutant of GitPushForce: the push names the base branch.
GitPushBase(rem, branch, commits) == (BaseBranch :> commits) @@ rem

\* `git push origin --force <branch>`.
GitPushForce(rem, branch, commits) == (branch :> commits) @@ rem

\* git add, the staged-diff check, commit, push: each of add, commit and
\* push runs with check=True.  `git commit` with nothing staged exits 1.
CommitChanges ==
    /\ pc = "commit"
    /\ \E add \in {"ok", "failed"}, rc \in DiffExitCodes(wtChanged),
          commit \in {"ok", "failed"}, push \in {"ok", "failed"} :
         LET staged == wtChanged
             message == CommitMessage(cur.input)
             committed == GitCommit(localBranches[branch_name], message)
             checked == <<GitCall("add", 0), GitCall("diff", rc)>>
             raise == /\ exc' = OtherError("CalledProcessError", 0)
                      /\ pc' = "exit"
         IN  IF add = "failed"
             THEN /\ raise
                  /\ gitCalls' = <<GitCall("add", 128)>>
                  /\ fault' = TRUE
                  /\ UNCHANGED <<localBranches, has_changes, itCommits, itPushes,
                                 remote>>
             ELSE IF ~HasChanges(rc)
             THEN /\ has_changes' = "false"
                  /\ gitCalls' = checked
                  /\ fault' = (fault \/ rc \notin {0, 1})
                  /\ pc' = "nochange"
                  /\ UNCHANGED <<exc, localBranches, itCommits, itPushes, remote>>
             ELSE IF commit = "failed" \/ ~staged
             THEN /\ raise
                  /\ gitCalls' = Append(checked, GitCall("commit", 1))
                  /\ fault' = (fault \/ rc \notin {0, 1} \/ staged)
                  /\ UNCHANGED <<localBranches, has_changes, itCommits, itPushes,
                                 remote>>
             ELSE IF push = "failed"
             THEN /\ raise
                  /\ gitCalls' = checked \o <<GitCall("commit", 0), GitCall("push", 1)>>
                  /\ localBranches' = [localBranches EXCEPT ![branch_name] = committed]
                  /\ itCommits' = Append(itCommits, CommitRecord(message))
                  /\ fault' = TRUE
                  /\ UNCHANGED <<has_changes, itPushes, remote>>
             ELSE /\ localBranches' = [localBranches EXCEPT ![branch_name] = committed]
                  /\ gitCalls' = checked \o <<GitCall("commit", 0), GitCall("push", 0)>>
                  /\ itCommits' = Append(itCommits, CommitRecord(message))
                  /\ remote' = GitPushForce(remote, branch_name, committed)
                  /\ itPushes' = Append(itPushes, branch_name)
                  /\ has_changes' = "true"
                  /\ fault' = (fault \/ rc \notin {0, 1})
                  /\ pc' = "pr"
                  /\ UNCHANGED exc
    /\ UNCHANGED <<envVars, clientVars, discVars, runVars, wtVars, wtChanged, updateOut, prVars, mergeVars,
                   logs>>

\* commit_changes returned False: the loop's log line, and on to the next
\* pair.
LogNoChanges ==
    /\ pc = "nochange"
    /\ logs' = logs \cup {NoChangesLine(cur)}
    /\ pc' = "exit"
    /\ UNCHANGED <<envVars, clientVars, discVars, runVars, exc, wtVars, gitVars, updateOut, prVars,
                   mergeVars>>

\* -------------------------------------- GiteaService.create_pull_request
\* A mutant of IsConflict: a 409 is an error like any other.
IsConflictNever(e) == FALSE

\* A mutant of IsConflict: the status compared with is 404.
IsConflictNotFound(e) == e.status = 404

\* e.status_code == HTTP_CONFLICT
IsConflict(e) == e.status = HTTP_CONFLICT

\* A mutant of MergesAfterCreate: the flag is not looked at.
MergesAfterCreateAlways(auto_merge) == TRUE

\* `if auto_merge:` after the pull request was created.
MergesAfterCreate(auto_merge) == auto_merge

\* `except APIError` around _merge_pull_request: logged, not re-raised.
AutoMergeCatches(e) == e.type = "APIError"

\* The POST of the pull request and what follows its answer.
CreatePullRequest ==
    /\ pc = "pr"
    /\ itPrCalls' = Append(itPrCalls,
                       [branch_name |-> branch_name, base_branch |-> BaseBranch,
                        title |-> PrTitle(cur.input), body |-> PrBody(cur),
                        auto_merge |-> autoMerge])
    /\ runPrCalls' = runPrCalls + 1
    /\ prsBefore' = prs
    /\ \E raw \in ForgePostPulls(prs, branch_name, BaseBranch) :
         LET r == MakeRequest(raw, 0)
         IN  /\ prResp' = IF r.ret THEN "created"
                          ELSE IF r.exc.type = "APIError" /\ r.exc.status = HTTP_CONFLICT
                          THEN "conflict" ELSE "error"
             /\ prs' = IF raw.k = "json"
                       THEN prs \cup {NewPullRequest(prs, branch_name, BaseBranch,
                                                     PrTitle(cur.input), PrBody(cur))}
                       ELSE prs
             /\ IF r.ret
                THEN /\ UNCHANGED <<exc, logs>>
                     /\ IF MergesAfterCreate(autoMerge)
                        THEN pc' = "merge" /\ prOutcome' = "merging"
                        ELSE pc' = "exit" /\ prOutcome' = "returned"
                ELSE IF r.exc.type = "APIError" /\ IsConflict(r.exc)
                THEN /\ logs' = logs \cup {"Pull request already exists for branch: "
                                             \o branch_name}
                     /\ pc' = "exit"
                     /\ prOutcome' = "returned"
                     /\ UNCHANGED exc
                ELSE /\ exc' = r.exc
                     /\ pc' = "exit"
                     /\ prOutcome' = "raised"
                     /\ UNCHANGED logs
    /\ UNCHANGED <<envVars, clientVars, discVars, run, idx, status, prsAtRunStart, prevFailed, wtVars,
                   gitVars, updateOut, mergeVars>>

\* The forge's answer to the next merge request.
MergeAnswers == IF script = <<>> THEN MergeResponses ELSE {script[mergeSent + 1]}

\* The number a scripted answer is told apart by.
RequestNo == IF script = <<>> THEN 0 ELSE mergeSent + 1

\* One attempt of _merge_pull_request, called by create_pull_request.
MergePullRequest ==
    /\ pc = "merge"
    /\ \E raw \in MergeAnswers :
         LET r == MakeRequest(raw, RequestNo)
             m == MergeAttempt(attempt, r, last_error)
         IN  /\ mergeSent' = mergeSent + 1
             /\ CASE m.next = "continue" ->
                       /\ attempt' = attempt + 1
                       /\ last_error' = m.last_error
                       /\ pc' = "merge"
                       /\ UNCHANGED <<mergeOutcome, prOutcome, exc, logs>>
                  [] m.next = "return" ->
                       /\ mergeOutcome' =
                             [kind |-> "returned", exc |-> NoExc, cause |-> NoExc]
                       /\ prOutcome' = "returned"
                       /\ attempt' = 0
                       /\ last_error' = NoExc
                       /\ pc' = "exit"
                       /\ UNCHANGED <<exc, logs>>
                  [] OTHER ->
                       /\ mergeOutcome' =
                             [kind |-> "raised", exc |-> m.exc, cause |-> m.cause]
                       /\ attempt' = 0
                       /\ last_error' = NoExc
                       /\ IF AutoMergeCatches(m.exc)
                          THEN /\ prOutcome' = "returned"
                               /\ logs' = logs \cup {"Failed to auto-merge pull request"}
                               /\ UNCHANGED exc
                          ELSE /\ prOutcome' = "raised"
                               /\ exc' = m.exc
                               /\ UNCHANGED logs
                       /\ pc' = "exit"
    /\ UNCHANGED <<envVars, clientVars, discVars, runVars, wtVars, gitVars, updateOut, itPrCalls, prs,
                   prsBefore, prResp>>

\* A mutant of PairOutcome: a failed pair is left as attempted.
PairOutcomeDropsFailure(e, changes) ==
    IF e # NoExc THEN "ATTEMPTED"
    ELSE IF changes = "true" THEN "PR_OPENED_OR_EXISTING"
    ELSE "NO_CHANGE"

\* The state a pair ends in: FAILED when its iteration raised, otherwise by
\* what commit_changes returned.
PairOutcome(e, changes) ==
    IF e # NoExc THEN "FAILED"
    ELSE IF changes = "true" THEN "PR_OPENED_OR_EXISTING"
    ELSE "NO_CHANGE"

\* ------------------------------------------------ the end of an iteration
\* The loop boundary: a failure is logged and the loop goes on; otherwise
\* the pair ends NO_CHANGE or PR_OPENED_OR_EXISTING.
EndPair ==
    /\ pc = "end"
    /\ IF exc # NoExc
       THEN IF LoopCatches(exc)
            THEN /\ status' = [status EXCEPT ![idx] = PairOutcome(exc, has_changes)]
                 /\ logs' = logs \cup {FailureLine(cur)}
                 /\ pc' = "loop"
            ELSE /\ pc' = "aborted"
                 /\ UNCHANGED <<status, logs>>
       ELSE /\ status' = [status EXCEPT ![idx] = PairOutcome(exc, has_changes)]
            /\ pc' = "loop"
            /\ UNCHANGED logs
    /\ FreshIteration
    /\ UNCHANGED <<envVars, clientVars, discVars, run, idx, runPrCalls, prsAtRunStart, prevFailed, tmpDir,
                   wtDir, wtAdmin, localBranches, remote, prs>>

\* process_flake_updates is run again: in the same working copy, or in a
\* fresh clone of the remote.  Upstream and the forge are as the run before
\* left them.
StartRun ==
    /\ pc = "done"
    /\ run < MaxRuns
    /\ run' = run + 1
    /\ idx' = 0
    /\ status' = [k \in DOMAIN pairs |-> "DISCOVERED"]
    /\ runPrCalls' = 0
    /\ prsAtRunStart' = prs
    /\ prevFailed' = (\E k \in DOMAIN pairs : status[k] = "FAILED")
    /\ logs' = {}
    /\ pc' = "loop"
    /\ \E clone \in {"same", "fresh"} :
         IF clone = "fresh"
         THEN /\ localBranches' = (BaseBranch :> remote[BaseBranch])
              /\ wtAdmin' = {}
         ELSE UNCHANGED <<localBranches, wtAdmin>>
    /\ UNCHANGED <<envVars, clientVars, discVars, exc, tmpDir, wtDir, worktree_path, removeCalls,
                   cleanupRaised, wtChanged, has_changes, gitCalls, itCommits, itPushes,
                   remote, fault, updateOut, prVars, mergeVars>>

Next ==
    \/ LoopNext
    \/ LoopEnd
    \/ WorktreeEnter
    \/ UpdateFlakeInput
    \/ CommitChanges
    \/ LogNoChanges
    \/ CreatePullRequest
    \/ MergePullRequest
    \/ WorktreeExit
    \/ EndPair
    \/ StartRun

Spec == Init /\ [][Next]_vars

\* One call of process_flake_updates, as it runs: the loop is sequential
\* code, so the step that is next is taken once the git, resolver or forge
\* call it waits for has come back.
NextRun ==
    \/ LoopNext
    \/ LoopEnd
    \/ WorktreeEnter
    \/ UpdateFlakeInput
    \/ CommitChanges
    \/ LogNoChanges
    \/ CreatePullRequest
    \/ MergePullRequest
    \/ WorktreeExit
    \/ EndPair

SpecRun == Init /\ [][NextRun]_vars /\ WF_vars(NextRun)

\* ------------------------------------------ the merge call on its own
\* create_pull_request has just created the pull request of the first pair
\* with auto_merge set, and the forge's answers to the merge requests are
\* fixed in advance.
MergePair == AllPairs[1]
MergeBranch == BranchName(MergePair.input)
MergeCommits == <<InitialCommit, CommitMessage(MergePair.input)>>

InitMerge ==
    /\ pairs = <<MergePair>>
    /\ stale = {MergePair}
    /\ autoMerge = TRUE
    /\ run = 1
    /\ idx = 1
    /\ pc = "merge"
    /\ status = <<"ATTEMPTED">>
    /\ exc = NoExc
    /\ tmpDir = TRUE
    /\ wtDir = TRUE
    /\ wtAdmin = {MergeBranch}
    /\ worktree_path = MergeBranch
    /\ removeCalls = 0
    /\ cleanupRaised = FALSE
    /\ localBranches = (MergeBranch :> MergeCommits) @@ (BaseBranch :> <<InitialCommit>>)
    /\ wtChanged = TRUE
    /\ updateOut = "changed"
    /\ has_changes = "true"
    /\ gitCalls = <<GitCall("add", 0), GitCall("diff", 1), GitCall("commit", 0),
                    GitCall("push", 0)>>
    /\ itCommits = <<CommitRecord(CommitMessage(MergePair.input))>>
    /\ itPushes = <<MergeBranch>>
    /\ itPrCalls = <<[branch_name |-> MergeBranch, base_branch |-> BaseBranch,
                      title |-> PrTitle(MergePair.input), body |-> PrBody(MergePair),
                      auto_merge |-> TRUE]>>
    /\ runPrCalls = 1
    /\ remote = (MergeBranch :> MergeCommits) @@ (BaseBranch :> <<InitialCommit>>)
    /\ prs = {NewPullRequest({}, MergeBranch, BaseBranch, PrTitle(MergePair.input),
                             PrBody(MergePair))}
    /\ prsBefore = {}
    /\ prsAtRunStart = {}
    /\ prevFailed = FALSE
    /\ prResp = "created"
    /\ prOutcome = "merging"
    /\ attempt = 0
    /\ last_error = NoExc
    /\ mergeSent = 0
    /\ mergeOutcome = NoMerge
    /\ script \in [1..ScriptLen -> MergeResponses]
    /\ fault = FALSE
    /\ logs = {}
    /\ NoClientCall
    /\ NoDiscoverCall

NextMerge == MergePullRequest

SpecMerge == InitMerge /\ [][NextMerge]_vars

\* The merge call as it runs: the loop is sequential code whose only waits
\* are time.sleep(2) and the forge's answer, so an attempt that can be made
\* is made.
SpecMergeLive == SpecMerge /\ WF_vars(MergePullRequest)

\* ------------------------------------ FlakeService.discover_flake_files
\* Strings that are split, stripped and matched are sequences of
\* characters.  "f" stands for the file name flake.nix, "l" for flake.lock
\* and the directory "n" for node_modules.
Chars(s) == {s[i] : i \in DOMAIN s}

\* str.split(sep)
RECURSIVE Split(_, _)
Split(s, sep) ==
    IF sep \notin Chars(s) THEN <<s>>
    ELSE LET i == CHOOSE i \in DOMAIN s :
                     s[i] = sep /\ \A j \in 1..(i - 1) : s[j] # sep
         IN  <<SubSeq(s, 1, i - 1)>> \o Split(SubSeq(s, i + 1, Len(s)), sep)

\* str.split(sep, 1) of a string that holds sep
SplitFirst(s, sep) ==
    LET i == CHOOSE i \in DOMAIN s : s[i] = sep /\ \A j \in 1..(i - 1) : s[j] # sep
    IN  <<SubSeq(s, 1, i - 1), SubSeq(s, i + 1, Len(s))>>

\* str.strip()
RECURSIVE Strip(_)
Strip(s) ==
    IF s # <<>> /\ Head(s) = " " THEN Strip(Tail(s))
    ELSE IF s # <<>> /\ s[Len(s)] = " " THEN Strip(SubSeq(s, 1, Len(s) - 1))
    ELSE s

\* sep.join(parts)
RECURSIVE Join(_, _)
Join(parts, sep) ==
    IF parts = <<>> THEN <<>>
    ELSE IF Len(parts) = 1 THEN parts[1]
    ELSE parts[1] \o <<sep>> \o Join(Tail(parts), sep)

\* [p.strip() for p in exclude_patterns.split(",") if p.strip()], or [] for
\* the empty directive
ExcludeList(directive) ==
    IF directive = <<>> THEN <<>>
    ELSE LET parts == Split(directive, ",")
         IN  SelectSeq([k \in DOMAIN parts |-> Strip(parts[k])], LAMBDA q : q # <<>>)

\* _match_pattern: fnmatch.fnmatch(path, pattern); `*` matches any run of
\* characters, "/" included, `?` matches one character.
RECURSIVE MatchPattern(_, _)
MatchPattern(pattern, path) ==
    IF pattern = <<>> THEN path = <<>>
    ELSE IF Head(pattern) = "*"
    THEN \/ MatchPattern(Tail(pattern), path)
         \/ path # <<>> /\ MatchPattern(pattern, Tail(path))
    ELSE /\ path # <<>>
         /\ Head(pattern) = "?" \/ Head(pattern) = Head(path)
         /\ MatchPattern(Tail(pattern), Tail(path))

\* A mutant of ExcludesFile: an input rule that matched the file earlier in
\* the directive keeps the file.
ExcludesFileUnlessInputRule(pattern, file, excluded_outputs) ==
    MatchPattern(pattern, file) /\ excluded_outputs = <<>>

\* `elif self._match_pattern(pattern, str(file))`: a pattern without "#"
\* that matches excludes the file.
ExcludesFile(pattern, file, excluded_outputs) == MatchPattern(pattern, file)

\* The loop over exclude_list for one file, up to its `break`.
RECURSIVE ScanPatterns(_, _, _)
ScanPatterns(exclude_list, file, excluded_outputs) ==
    IF exclude_list = <<>>
    THEN [should_exclude_file |-> FALSE, excluded_outputs |-> excluded_outputs]
    ELSE LET pattern == Head(exclude_list)
         IN  IF "#" \in Chars(pattern)
             THEN LET file_pattern == SplitFirst(pattern, "#")[1]
                      output_name == SplitFirst(pattern, "#")[2]
                  IN  ScanPatterns(Tail(exclude_list), file,
                                   IF MatchPattern(file_pattern, file)
                                   THEN Append(excluded_outputs, output_name)
                                   ELSE excluded_outputs)
             ELSE IF ExcludesFile(pattern, file, excluded_outputs)
             THEN [should_exclude_file |-> TRUE, excluded_outputs |-> excluded_outputs]
             ELSE ScanPatterns(Tail(exclude_list), file, excluded_outputs)

\* _get_flake_lock_path: Path(flake_file).parent / "flake.lock"
GetFlakeLockPath(flake_file) ==
    LET parts == Split(flake_file, "/")
    IN  Join([k \in 1..Len(parts) |-> IF k = Len(parts) THEN <<"l">> ELSE parts[k]],
             "/")

\* What Path().rglob("flake.nix") finds, in its order.
RglobFiles == << <<"a", "/", "f">>, <<"b", "/", "f">>, <<"n", "/", "a", "/", "f">> >>

\* The directories whose files are left out ("n": node_modules).
IgnoredParts == {"n"}

\* all_flake_files after the ignore filter.
AllFlakeFiles ==
    SelectSeq(RglobFiles,
              LAMBDA f : \A k \in DOMAIN Split(f, "/") :
                            Split(f, "/")[k] \notin {<<c>> : c \in IgnoredParts})

\* What `nix flake metadata --json` can answer for a flake: the lock nodes
\* in their order and the root node's inputs (input name -> node name), or a
\* failure of the command.
RootNode == <<"r">>
MetadataFailed == [ok |-> FALSE, nodes |-> <<>>, root_inputs |-> <<>>]
Metadata(nodes, root_inputs) == [ok |-> TRUE, nodes |-> nodes, root_inputs |-> root_inputs]

MetadataAnswers ==
    { Metadata(<<RootNode, <<"x">>, <<"y">>>>, (<<"x">> :> <<"x">>) @@ (<<"y">> :> <<"y">>)),
      Metadata(<<RootNode, <<"x">>, <<"y", "2">>>>,
               (<<"x">> :> <<"x">>) @@ (<<"y">> :> <<"y", "2">>)),
      Metadata(<<RootNode, <<"x">>, <<"y">>>>, (<<"x">> :> <<"x">>)),
      Metadata(<<>>, <<>>),
      MetadataFailed }

\* A mutant of FilterExcluded: nothing is filtered out.
FilterExcludedNothing(input_names, excluded_outputs) == input_names

\* A mutant of FilterExcluded: only the first excluded name is filtered out.
FilterExcludedFirstOnly(input_names, excluded_outputs) ==
    SelectSeq(input_names,
              LAMBDA name : excluded_outputs = <<>> \/ name # Head(excluded_outputs))

\* [name for name in input_names if name not in flake.excluded_outputs]
FilterExcluded(input_names, excluded_outputs) ==
    SelectSeq(input_names, LAMBDA name : name \notin Chars(excluded_outputs))

\* get_flake_inputs: the nodes, other than root, whose name is a key of
\* the root node's inputs, without the excluded ones; FlakeServiceError
\* when the command or the parsing fails.
GetFlakeInputs(answer, excluded_outputs) ==
    IF ~answer.ok THEN [ok |-> FALSE, inputs |-> <<>>]
    ELSE LET input_names ==
                 SelectSeq(answer.nodes,
                           LAMBDA node_name : /\ node_name # RootNode
                                              /\ node_name \in DOMAIN answer.root_inputs)
         IN  [ok |-> TRUE, inputs |-> FilterExcluded(input_names, excluded_outputs)]

Flake(file_path, inputs, excluded_outputs) ==
    [file_path |-> file_path, inputs |-> inputs, excluded_outputs |-> excluded_outputs]

\* A mutant of LockFileExists: the lock file is not looked for.
LockFileExistsAlways(file, locks) == TRUE

\* Path(lock_file_path).exists()
LockFileExists(file, locks) == GetFlakeLockPath(file) \in locks

\* A mutant of DiscoveryFailure: the flakes found so far are returned.
DiscoveryFailureReturnsPartial(flakes, queried) ==
    [kind |-> "returned", flakes |-> flakes, queried |-> queried, exc |-> NoExc]

\* `except Exception as e: raise FlakeServiceError(msg) from e`: the flakes
\* collected so far are not returned.
DiscoveryFailure(flakes, queried) ==
    [kind |-> "raised", flakes |-> <<>>, queried |-> queried,
     exc |-> OtherError("FlakeServiceError", 0)]

\* The loop of discover_flake_files over the files still to visit: the
\* flakes it returns, or the FlakeServiceError that replaces them, and the
\* files whose inputs were queried.
RECURSIVE DiscoverFrom(_, _, _, _, _, _)
DiscoverFrom(files, flakes, queried, exclude_list, locks, answers) ==
    IF files = <<>>
    THEN [kind |-> "returned", flakes |-> flakes, queried |-> queried, exc |-> NoExc]
    ELSE LET file == Head(files)
             scan == ScanPatterns(exclude_list, file, <<>>)
             got == GetFlakeInputs(answers[file], scan.excluded_outputs)
         IN  IF scan.should_exclude_file \/ ~LockFileExists(file, locks)
             THEN DiscoverFrom(Tail(files), flakes, queried, exclude_list, locks,
                               answers)
             ELSE IF ~got.ok
             THEN DiscoveryFailure(flakes, Append(queried, file))
             ELSE DiscoverFrom(Tail(files),
                               Append(flakes, Flake(file, got.inputs,
                                                    scan.excluded_outputs)),
                               Append(queried, file), exclude_list, locks, answers)

DiscoverFlakeFiles(directive, locks, answers) ==
    DiscoverFrom(AllFlakeFiles, <<>>, <<>>, ExcludeList(directive), locks, answers)

\* The tokens exclude directives are written from: file globs, glob#input
\* rules, with and without blanks around them, and the empty token.
TokenPool ==
    { <<"a", "/", "*">>,
      <<"*", "/", "f">>,
      <<"*", "#", "x">>,
      <<"b", "/", "?", "#", "y">>,
      <<" ", "a", "/", "f", "#", "y", " ">>,
      <<" ">> }

Directives == UNION {[1..n -> TokenPool] : n \in 0..MaxTokens}

\* One call of discover_flake_files.
Discover ==
    /\ discovery.kind = "none"
    /\ discovery' = DiscoverFlakeFiles(exclude_patterns, lockFiles, metadata)
    /\ UNCHANGED <<tokens, exclude_patterns, lockFiles, metadata>>
    /\ UNCHANGED <<envVars, clientVars, runVars, pc, exc, wtVars, gitVars, updateOut,
                   prVars, mergeVars, logs>>

InitDiscover ==
    /\ pairs = <<>>
    /\ stale = {}
    /\ autoMerge = FALSE
    /\ InitLoop
    /\ NoClientCall
    /\ tokens \in Directives
    /\ exclude_patterns = Join(tokens, ",")
    /\ lockFiles \in SUBSET {GetFlakeLockPath(AllFlakeFiles[k]) : k \in DOMAIN AllFlakeFiles}
    /\ metadata \in [Chars(AllFlakeFiles) -> MetadataAnswers]
    /\ discovery = NoDiscovery

NextDiscover == Discover

SpecDiscover == InitDiscover /\ [][NextDiscover]_vars

\* ------------------------------------------ forge-client operations
\* The answers the forge can give to a request.
ClientResponses ==
    {Json(""), HttpError(401), HttpError(404), HttpError(500), UrlError, Malformed}

ClientOps == {"_make_request", "get_branch", "_validate_token"}

Returned(value) == [kind |-> "returned", value |-> value, exc |-> NoExc]
Raised(e) == [kind |-> "raised", value |-> "none", exc |-> e]

\* One call of _make_request: the parsed body is returned, the exception
\* propagates.
MakeRequestCall ==
    /\ op = "_make_request"
    /\ ~called
    /\ called' = TRUE
    /\ LET r == MakeRequest(responses[1], 1)
       IN  result' = IF r.ret THEN Returned("json") ELSE Raised(r.exc)
    /\ UNCHANGED <<op, responses, caught, clientLogs>>
    /\ UNCHANGED <<envVars, discVars, runVars, pc, exc, wtVars, gitVars, updateOut, prVars,
                   mergeVars, logs>>

\* get_branch: `except APIError: return None`, whatever the status; nothing
\* is logged.  An exception that is no APIError propagates.
GetBranch ==
    /\ op = "get_branch"
    /\ ~called
    /\ called' = TRUE
    /\ LET r == MakeRequest(responses[1], 1)
       IN  /\ result' = IF r.ret THEN Returned("Branch")
                        ELSE IF r.exc.type = "APIError" THEN Returned("None")
                        ELSE Raised(r.exc)
           /\ caught' = IF ~r.ret /\ r.exc.type = "APIError" THEN r.exc ELSE NoExc
    /\ UNCHANGED <<op, responses, clientLogs>>
    /\ UNCHANGED <<envVars, discVars, runVars, pc, exc, wtVars, gitVars, updateOut, prVars,
                   mergeVars, logs>>

\* _validate_token, called by __post_init__: GET /user, then GET
\* /repos/{owner}/{repo}, both inside one `try`; an APIError of either is
\* logged and re-raised, any other exception propagates unlogged.
ValidateToken ==
    /\ op = "_validate_token"
    /\ ~called
    /\ called' = TRUE
    /\ LET user_info == MakeRequest(responses[1], 1)
           repo_info == MakeRequest(responses[2], 2)
           failed(r) == IF r.exc.type = "APIError"
                        THEN {"Failed to validate token"} ELSE {}
       IN  IF ~user_info.ret
           THEN /\ result' = Raised(user_info.exc)
                /\ clientLogs' = failed(user_info)
           ELSE IF ~repo_info.ret
           THEN /\ result' = Raised(repo_info.exc)
                /\ clientLogs' = {"Authenticated as user"} \cup failed(repo_info)
           ELSE /\ result' = Returned("none")
                /\ clientLogs' = {"Authenticated as user", "Repository permissions"}
    /\ UNCHANGED <<op, responses, caught>>
    /\ UNCHANGED <<envVars, discVars, runVars, pc, exc, wtVars, gitVars, updateOut, prVars,
                   mergeVars, logs>>

\* One forge-client operation, called once with every sequence of answers.
InitClient ==
    /\ pairs = <<>>
    /\ stale = {}
    /\ autoMerge = FALSE
    /\ InitLoop
    /\ op \in ClientOps
    /\ responses \in [1..2 -> ClientResponses]
    /\ called = FALSE
    /\ result = NoResult
    /\ caught = NoExc
    /\ clientLogs = {}
    /\ NoDiscoverCall

NextClient == MakeRequestCall \/ GetBranch \/ ValidateToken

SpecClient == InitClient /\ [][NextClient]_vars

\* The state InitMerge starts from, but for the script, is one Spec reaches.
MergeStartReached ==
    /\ pairs = <<MergePair>> /\ stale = {MergePair} /\ autoMerge /\ run = 1 /\ idx = 1
    /\ pc = "merge" /\ status = <<"ATTEMPTED">> /\ exc = NoExc /\ tmpDir /\ wtDir
    /\ wtAdmin = {MergeBranch} /\ worktree_path = MergeBranch /\ removeCalls = 0
    /\ ~cleanupRaised
    /\ localBranches = (MergeBranch :> MergeCommits) @@ (BaseBranch :> <<InitialCommit>>)
    /\ wtChanged /\ updateOut = "changed" /\ has_changes = "true"
    /\ gitCalls = <<GitCall("add", 0), GitCall("diff", 1), GitCall("commit", 0),
                    GitCall("push", 0)>>
    /\ itCommits = <<CommitRecord(CommitMessage(MergePair.input))>> /\ itPushes = <<MergeBranch>>
    /\ Len(itPrCalls) = 1 /\ runPrCalls = 1
    /\ remote = (MergeBranch :> MergeCommits) @@ (BaseBranch :> <<InitialCommit>>)
    /\ prs = {NewPullRequest({}, MergeBranch, BaseBranch, PrTitle(MergePair.input),
                             PrBody(MergePair))}
    /\ prsBefore = {} /\ prsAtRunStart = {} /\ ~prevFailed /\ prResp = "created"
    /\ prOutcome = "merging" /\ attempt = 0 /\ last_error = NoExc /\ mergeSent = 0
    /\ mergeOutcome = NoMerge /\ ~fault /\ logs = {}

\* ================================================================ claims
NotReady == Json(TryAgain)
Success == Json("")
MergeDone == mergeOutcome.kind # "none"
MaxRetriesError == APIError(MaxRetriesMsg, NoStatus, 0)

\* An answer _make_request raises as an APIError: an HTTP error status or a
\* transport failure.
ApiErrorAt(n) == script[n].k \in {"http", "urlerror"}
ErrorAt(n) == MakeRequest(script[n], n).exc

\* The last answer among the first n that was an APIError, if any.
LastApiError(n) ==
    IF \E k \in 1..n : ApiErrorAt(k)
    THEN ErrorAt(CHOOSE k \in 1..n :
                    ApiErrorAt(k) /\ \A j \in (k + 1)..n : ~ApiErrorAt(j))
    ELSE NoExc

NotReadyFourThenSuccess ==
    /\ \A k \in 1..4 : script[k] = NotReady
    /\ script[5] = Success

NotReadySixTimes == \A k \in 1..6 : script[k] = NotReady

\* C7: a merge answered 'not ready' four times and then with success on the
\* fifth attempt completes without error, after five requests; a merge
\* answered 'not ready' six times in a row fails with the max-retries error.
C7_MergeRetrySequences ==
    /\ (NotReadyFourThenSuccess \/ NotReadySixTimes) =>
          (pc = "merge" => mergeSent < max_retries)
    /\ (MergeDone /\ NotReadyFourThenSuccess) =>
          /\ mergeOutcome.kind = "returned"
          /\ mergeSent = 5
          /\ exc = NoExc
    /\ (MergeDone /\ NotReadySixTimes) =>
          /\ mergeOutcome.kind = "raised"
          /\ mergeOutcome.exc = MaxRetriesError

C7_Witness ==
    /\ MergeDone
    /\ NotReadyFourThenSuccess
    /\ mergeOutcome.kind = "returned"
    /\ mergeSent = 5

\* C8 as claimed: an error answer other than 'not ready' is retried under
\* the same budget, and whenever a sequence with such an error exhausts the
\* budget, the error raised to the caller is the last error answer received.
C8_LastErrorAlwaysRaised ==
    /\ \A n \in 1..(max_retries - 1) :
          (mergeSent >= n /\ ApiErrorAt(n)) => (pc = "merge" \/ mergeSent > n)
    /\ (/\ MergeDone
        /\ mergeOutcome.kind = "raised"
        /\ mergeSent = max_retries
        /\ \E n \in 1..max_retries : ApiErrorAt(n))
          => mergeOutcome.exc = LastApiError(max_retries)

\* C8, amended: an answer that is raised as an APIError is retried under the
\* same budget of five attempts; when the fifth answer is such an error, that
\* error is the one raised; when the fifth answer is 'not ready', the
\* max-retries error is raised, its cause the last error answer if there was
\* one; an answer whose body is not JSON is not retried, its decode error is
\* raised at once.
C8_ErrorsRetriedLastAttemptReraised ==
    /\ \A n \in 1..(max_retries - 1) :
          (mergeSent >= n /\ ApiErrorAt(n)) => (pc = "merge" \/ mergeSent > n)
    /\ (MergeDone /\ mergeSent = max_retries /\ ApiErrorAt(max_retries)) =>
          /\ mergeOutcome.kind = "raised"
          /\ mergeOutcome.exc = ErrorAt(max_retries)
    /\ (MergeDone /\ mergeSent = max_retries /\ script[max_retries] = NotReady) =>
          /\ mergeOutcome.kind = "raised"
          /\ mergeOutcome.exc = MaxRetriesError
          /\ mergeOutcome.cause = LastApiError(max_retries - 1)
    /\ \A n \in 1..max_retries :
          (mergeSent >= n /\ script[n] = Malformed) =>
              /\ mergeSent = n
              /\ mergeOutcome.kind = "raised"
              /\ mergeOutcome.exc = OtherError("ValueError", n)

C8_Witness ==
    /\ MergeDone
    /\ mergeSent = max_retries
    /\ ApiErrorAt(1)
    /\ \A k \in 2..max_retries : script[k] = NotReady
    /\ mergeOutcome.exc = MaxRetriesError
    /\ mergeOutcome.cause = ErrorAt(1)

Terminal == {"NO_CHANGE", "PR_OPENED_OR_EXISTING", "FAILED"}

\* The body of the worktree scope has been left, normally or by a failure.
BodyLeft == pc \in {"exit", "end"}

\* C1: a failure raised while a pair is processed is caught at the loop
\* boundary: the run never aborts, every pair before the current one has
\* reached a terminal state, and when the run is done every pair has been
\* attempted, in discovery order.
C1_FailureIsolation ==
    /\ pc # "aborted"
    /\ \A k \in DOMAIN pairs :
          /\ (k < idx \/ pc = "done") => status[k] \in Terminal
          /\ k > idx => status[k] = "DISCOVERED"
    /\ pc = "done" => idx = Len(pairs)

C1_Witness ==
    /\ pc = "done"
    /\ Len(pairs) = 2
    /\ status[1] = "FAILED"
    /\ status[2] = "PR_OPENED_OR_EXISTING"

\* C2: when the resolver produced a diff for the input (and git kept its
\* contract), exactly one branch, update-<input>, is pushed, holding the base
\* branch's head and one update commit, and exactly one PR-creation call is
\* made, with that branch as head, the base branch as base, the title
\* 'Update <input>' and a body naming the input.
C2_DiffPushedOncePrOnce ==
    /\ Len(itPushes) <= 1
    /\ Len(itPrCalls) <= 1
    /\ (updateOut = "changed" /\ ~fault /\ BodyLeft) =>
          /\ itPushes = <<"update-" \o cur.input>>
          /\ ("update-" \o cur.input) \in DOMAIN remote
          /\ remote["update-" \o cur.input] =
                <<InitialCommit, "Update " \o cur.input>>
          /\ Len(itPrCalls) = 1
          /\ itPrCalls[1].branch_name = "update-" \o cur.input
          /\ itPrCalls[1].base_branch = BaseBranch
          /\ itPrCalls[1].title = "Update " \o cur.input
          /\ itPrCalls[1].body.input = cur.input

C2_Witness ==
    /\ pc = "end"
    /\ run = 1
    /\ updateOut = "changed"
    /\ ~fault
    /\ prResp = "created"
    /\ Len(itPrCalls) = 1

\* C3: when the update leaves the lock file unchanged, no commit is made, no
\* branch is pushed, no PR-creation call occurs and the base branch gains no
\* commit; and (git keeping its contract) commit_changes returns false,
\* nothing is raised and the line 'No changes for input <x> in <path>' is
\* logged.
C3_NoChangeNoCommitNoPr ==
    /\ localBranches[BaseBranch] = <<InitialCommit>>
    /\ remote[BaseBranch] = <<InitialCommit>>
    /\ updateOut = "unchanged" =>
          /\ itCommits = <<>>
          /\ itPushes = <<>>
          /\ itPrCalls = <<>>
          /\ localBranches[BranchName(cur.input)] = <<InitialCommit>>
          /\ (BodyLeft /\ ~fault) =>
                /\ has_changes = "false"
                /\ exc = NoExc
                /\ ("No changes for input " \o cur.input \o " in " \o cur.flake)
                      \in logs

C3_Witness ==
    /\ pc = "end"
    /\ updateOut = "unchanged"
    /\ ~fault
    /\ has_changes = "false"
    /\ NoChangesLine(cur) \in logs

\* The pull request of the current pair's branch was open when this run
\* began.
HadOpenPr == OpenFor(prsAtRunStart, BranchName(cur.input), BaseBranch) # {}

\* C4 as claimed: a second run with no upstream change makes no PR-creation
\* call (stated for a second run that follows a run in which no pair failed).
C4_SecondRunNoPrCalls == (run >= 2 /\ ~prevFailed) => runPrCalls = 0

\* C4, amended: a second run with no upstream change opens no additional
\* pull request for a (head, base) that already has an open one; it makes at
\* most one PR-creation call per pair, and a call for a pair whose pull
\* request is already open creates nothing: answered 409, it returns
\* normally and sends no merge request.
C4_SecondRunOpensNoDuplicate ==
    run >= 2 =>
        /\ \A p \in prs \ prsAtRunStart : OpenFor(prsAtRunStart, p.head, p.base) = {}
        /\ runPrCalls <= idx
        /\ (prResp # "none" /\ HadOpenPr) =>
              /\ prResp # "created"
              /\ prs = prsBefore
              /\ prResp = "conflict" =>
                    (prOutcome = "returned" /\ exc = NoExc /\ mergeSent = 0)

C4_Witness ==
    /\ run = 2
    /\ ~prevFailed
    /\ pc = "end"
    /\ HadOpenPr
    /\ prResp = "conflict"
    /\ prOutcome = "returned"
    /\ runPrCalls = 1

\* C5: when an open pull request for (head, base) exists and the forge
\* answers the creation request with 409, create_pull_request returns
\* normally, raises nothing and no second pull request is created.
C5_ConflictIsSuccess ==
    prResp = "conflict" =>
        /\ BodyLeft
        /\ prOutcome = "returned"
        /\ exc = NoExc
        /\ prs = prsBefore
        /\ Cardinality(OpenFor(prs, BranchName(cur.input), BaseBranch)) = 1

C5_Witness ==
    /\ pc = "exit"
    /\ prResp = "conflict"
    /\ prOutcome = "returned"
    /\ Cardinality(prs) = 1

C9_MergeIffAutoMergeAndCreated ==
    /\ (mergeSent > 0 \/ pc = "merge") => (autoMerge /\ prResp = "created")
    /\ (prOutcome \in {"returned", "raised"} /\ autoMerge /\ prResp = "created") =>
          mergeSent > 0

C9_Witness ==
    /\ pc = "exit"
    /\ autoMerge
    /\ prResp = "created"
    /\ prOutcome = "returned"
    /\ mergeSent > 0

\* C10: once the worktree scope has been left, normally or by an exception
\* in its body, the worktree's directory and the temporary directory are
\* gone, the removal has run once, and a removal that fails raises nothing.
C10_ScopeExitRemovesWorktree ==
    /\ ~cleanupRaised
    /\ pc \in {"loop", "worktree", "end", "done"} => (~tmpDir /\ ~wtDir)
    /\ (pc = "end" /\ worktree_path # "") => removeCalls = 1

C10_Witness ==
    /\ pc = "end"
    /\ updateOut = "failed"
    /\ exc = OtherError("FlakeServiceError", 0)
    /\ ~tmpDir
    /\ ~wtDir
    /\ removeCalls = 1

\* The scope was never entered: creating the worktree failed.
CreationFailed == pc = "end" /\ updateOut = "none" /\ exc # NoExc

\* C11 as claimed: when creating the worktree fails, the failure propagates
\* to the caller and the removal step is not run for the worktree that was
\* never created.  (The error's class is left open here: any exception
\* counts as the worktree error.)
C11_CreationFailureSkipsRemoval == CreationFailed => removeCalls = 0

\* C12 as claimed: a pair whose input name was already used by an earlier
\* pair of the run (one that did not fail) is not refused its worktree
\* because the branch of that name exists.
C12_SecondManifestReusesBranch ==
    ~ /\ CreationFailed
      /\ worktree_path # ""
      /\ \E k \in 1..(idx - 1) :
            pairs[k].input = cur.input /\ status[k] # "FAILED"
      /\ branch_name \in DOMAIN localBranches

\* C13 as claimed: after an iteration that found no change, no local branch
\* named for the input remains.
C13_NoChangeDiscardsLocalBranch ==
    (pc = "end" /\ has_changes = "false") =>
        BranchName(cur.input) \notin DOMAIN localBranches

\* commit_changes has returned or raised.
CommitChangesLeft == pc \in {"nochange", "pr", "merge", "exit", "end"} /\ updateOut # "none"

\* C14: commit_changes returns false without a commit or a push when the
\* staged diff is empty; otherwise it makes one commit under the bot
\* identity, force-pushes the branch and returns true.  It returns true
\* exactly when a commit and a push were performed.
C14_CommitAndPush ==
    /\ has_changes = "false" => (itCommits = <<>> /\ itPushes = <<>>)
    /\ has_changes = "true" =>
          /\ itCommits = <<[message |-> "Update " \o cur.input,
                            author |-> "gitea-actions[bot]",
                            committer |-> "gitea-actions[bot]"]>>
          /\ itPushes = <<branch_name>>
          /\ remote[branch_name] = localBranches[branch_name]
    /\ (itCommits # <<>> /\ itPushes # <<>>) <=> has_changes = "true"
    /\ (CommitChangesLeft /\ ~fault /\ updateOut # "failed") =>
          has_changes = (IF wtChanged THEN "true" ELSE "false")

C14_Witness ==
    /\ pc = "pr"
    /\ wtChanged
    /\ has_changes = "true"
    /\ Len(itCommits) = 1
    /\ itPushes = <<branch_name>>

\* C15 as claimed: get_branch returns absent only when the forge reports
\* 404; every other HTTP error status is raised as an APIError carrying
\* that status.
C15_GetBranchAbsentOnlyOnNotFound ==
    (op = "get_branch" /\ called) =>
        /\ result = Returned("None") => responses[1] = HttpError(404)
        /\ (responses[1].k = "http" /\ responses[1].code # 404) =>
              /\ result.kind = "raised"
              /\ result.exc.type = "APIError"
              /\ result.exc.status = responses[1].code

\* C16 as claimed: the start-up validation fails exactly when the primary
\* call, GET /user, fails; a failure of the repository call alone lets the
\* client be constructed.
C16_ValidationFailsIffPrimaryFails ==
    (op = "_validate_token" /\ called) =>
        (result.kind = "raised" <=> ~MakeRequest(responses[1], 1).ret)

\* C17 as claimed: every failure of a request leaves _make_request as an
\* APIError, with the status code of an HTTP error and with no status code
\* for a transport failure or a body that is not JSON.
C17_EveryRequestFailureIsApiError ==
    (op = "_make_request" /\ called /\ result.kind = "raised") =>
        /\ result.exc.type = "APIError"
        /\ result.exc.status =
              (IF responses[1].k = "http" THEN responses[1].code ELSE NoStatus)

\* C18 as claimed: an error that is caught and not re-raised is accompanied
\* by a log line.  (A 404, the forge's "not found", is not counted as an
\* error here.)
C18_NoSilentSwallow ==
    (called /\ caught # NoExc /\ caught.status # 404) => clientLogs # {}

\* The directive's tokens as written, blanks around them dropped, empty
\* ones left out.
WrittenTokens == {Strip(tokens[k]) : k \in DOMAIN tokens} \ {<<>>}

\* The bare (file-only) globs of the directive.
BareGlobs == {t \in WrittenTokens : "#" \notin Chars(t)}

\* The paths of the flakes returned.
DiscoveredPaths == {discovery.flakes[k].file_path : k \in DOMAIN discovery.flakes}

\* The inputs returned for a path by a discovery result.
InputsOf(d, path) ==
    IF \E k \in DOMAIN d.flakes : d.flakes[k].file_path = path
    THEN <<(CHOOSE fl \in Chars(d.flakes) : fl.file_path = path).inputs>>
    ELSE <<>>

\* C19: whatever else the directive holds and wherever the bare glob
\* stands in it, no manifest whose path matches a bare glob of the directive
\* is in the discovery output.
C19_BareGlobDropsManifest ==
    discovery.kind = "returned" =>
        \A g \in BareGlobs : \A path \in DiscoveredPaths : ~MatchPattern(g, path)

C19_Witness ==
    /\ discovery.kind = "returned"
    /\ tokens = << <<"*", "#", "x">>, <<"a", "/", "*">> >>
    /\ GetFlakeLockPath(<<"a", "/", "f">>) \in lockFiles
    /\ <<"x">> \in DOMAIN metadata[<<"a", "/", "f">>].root_inputs
    /\ DiscoveredPaths = {<<"b", "/", "f">>}

\* The directive without its k-th token.
DirectiveWithout(k) ==
    Join([j \in 1..(Len(tokens) - 1) |-> IF j < k THEN tokens[j] ELSE tokens[j + 1]],
         ",")

\* C20: for a rule glob#input of the directive, a manifest that matches
\* glob and no bare glob (and has a lock file) is in the output and its
\* inputs do not hold input; a manifest that does not match glob is in the
\* output, and has the inputs, it has without the rule.
C20_InputRuleFiltersInput ==
    discovery.kind = "returned" =>
        \A k \in DOMAIN tokens :
            "#" \in Chars(tokens[k]) =>
                LET rule == SplitFirst(Strip(tokens[k]), "#")
                    without == DiscoverFlakeFiles(DirectiveWithout(k), lockFiles,
                                                  metadata)
                IN  \A path \in Chars(AllFlakeFiles) :
                        IF MatchPattern(rule[1], path)
                        THEN /\ ( /\ GetFlakeLockPath(path) \in lockFiles
                                  /\ \A g \in BareGlobs : ~MatchPattern(g, path) )
                                    => path \in DiscoveredPaths
                             /\ \A l \in Chars(InputsOf(discovery, path)) :
                                    rule[2] \notin Chars(l)
                        ELSE /\ without.kind = "returned"
                             /\ InputsOf(discovery, path) = InputsOf(without, path)

C20_Witness ==
    /\ discovery.kind = "returned"
    /\ tokens = << <<"b", "/", "?", "#", "y">> >>
    /\ metadata[<<"b", "/", "f">>] = metadata[<<"a", "/", "f">>]
    /\ InputsOf(discovery, <<"a", "/", "f">>) = << << <<"x">>, <<"y">> >> >>
    /\ InputsOf(discovery, <<"b", "/", "f">>) = << << <<"x">> >> >>

\* A manifest the directive does not drop and whose lock file exists.
Eligible(path) ==
    /\ GetFlakeLockPath(path) \in lockFiles
    /\ \A g \in BareGlobs : ~MatchPattern(g, path)

\* C21: a manifest without a sibling lock file is never in the output and
\* its inputs are never queried; its absence is no error: a discovery fails
\* only on a manifest that has its lock file, and one that returns holds
\* every manifest that has its lock file and is not dropped by the directive.
C21_NoLockFileSkipped ==
    discovery.kind # "none" =>
        /\ \A path \in Chars(AllFlakeFiles) :
              GetFlakeLockPath(path) \notin lockFiles =>
                  /\ path \notin DiscoveredPaths
                  /\ path \notin Chars(discovery.queried)
        /\ discovery.kind = "raised" =>
              \E path \in Chars(AllFlakeFiles) : Eligible(path) /\ ~metadata[path].ok
        /\ discovery.kind = "returned" =>
              \A path \in Chars(AllFlakeFiles) :
                  Eligible(path) => path \in DiscoveredPaths

C21_Witness ==
    /\ discovery.kind = "returned"
    /\ tokens = <<>>
    /\ lockFiles = {GetFlakeLockPath(<<"b", "/", "f">>)}
    /\ ~metadata[<<"a", "/", "f">>].ok
    /\ DiscoveredPaths = {<<"b", "/", "f">>}
    /\ discovery.queried = << <<"b", "/", "f">> >>

\* C22: when the query of the inputs of one manifest fails, the whole call
\* fails with a FlakeServiceError and returns no manifest, those found
\* before the failing one included; and the call fails in no other case.
C22_OneFailureFailsDiscovery ==
    discovery.kind # "none" =>
        /\ (\E path \in Chars(AllFlakeFiles) : Eligible(path) /\ ~metadata[path].ok)
              <=> discovery.kind = "raised"
        /\ discovery.kind = "raised" =>
              /\ discovery.flakes = <<>>
              /\ discovery.exc.type = "FlakeServiceError"

C22_Witness ==
    /\ discovery.kind = "raised"
    /\ tokens = <<>>
    /\ discovery.queried = << <<"a", "/", "f">>, <<"b", "/", "f">> >>
    /\ metadata[<<"a", "/", "f">>].ok
    /\ discovery.flakes = <<>>

\* C27 as claimed: the inputs returned for a manifest are the keys of the
\* root node's inputs, each once, without the manifest's excluded inputs,
\* also when a key differs from the name of the node it points to.
C27_InputsAreRootKeys ==
    discovery.kind = "returned" =>
        \A k \in DOMAIN discovery.flakes :
            LET fl == discovery.flakes[k]
            IN  /\ Chars(fl.inputs) =
                      DOMAIN metadata[fl.file_path].root_inputs
                          \ Chars(fl.excluded_outputs)
                /\ \A i, j \in DOMAIN fl.inputs :
                      fl.inputs[i] = fl.inputs[j] => i = j

\* The permutations of 1..n.
TokenOrders(n) == {f \in [1..n -> 1..n] : \A i, j \in 1..n : f[i] = f[j] => i = j}

\* What a discovery returns, excluded_outputs aside.
Outcome(d) ==
    [kind |-> d.kind,
     flakes |-> [k \in DOMAIN d.flakes |->
                    [file_path |-> d.flakes[k].file_path,
                     inputs |-> d.flakes[k].inputs]]]

\* C29: a discovery returns the same manifests with the same inputs for
\* every order of the tokens of its directive.
C29_TokenOrderIrrelevant ==
    discovery.kind # "none" =>
        \A f \in TokenOrders(Len(tokens)) :
            Outcome(DiscoverFlakeFiles(Join([k \in DOMAIN tokens |-> tokens[f[k]]], ","),
                                       lockFiles, metadata))
                = Outcome(discovery)

C29_Witness ==
    /\ discovery.kind = "returned"
    /\ tokens = << <<"*", "#", "x">>, <<" ", "a", "/", "f", "#", "y", " ">> >>
    /\ InputsOf(discovery, <<"a", "/", "f">>) = << <<>> >>
    /\ InputsOf(discovery, <<"b", "/", "f">>) = << << <<"y">> >> >>


\* The current pair's update ended with the resolver's exit code 0 and its
\* "does not match any input" warning.
Warned == idx >= 1 /\ WarnLine(cur) \in logs

\* C23: when the resolver exits successfully and warns that the named input
\* is not declared, the update raises nothing, the lock file in the worktree
\* is as it was, the warning is in the log, and the pair goes on as one with
\* no change: nothing is committed, pushed or requested for it, and unless a
\* git command fails it ends without an exception and without changes.
C23_WarningIsNoOp ==
    Warned =>
        /\ updateOut \in {"unchanged", "none"}
        /\ ~wtChanged
        /\ pc = "commit" => exc = NoExc
        /\ itCommits = <<>> /\ itPushes = <<>> /\ itPrCalls = <<>>
        /\ (pc \in {"nochange", "exit", "end"} /\ ~fault) =>
               exc = NoExc /\ has_changes = "false"
        /\ pc \in {"loop", "done"} => status[idx] # "PR_OPENED_OR_EXISTING"

C23_Witness ==
    /\ Warned
    /\ pc = "loop"
    /\ status[idx] = "NO_CHANGE"


\* The git commands of the current iteration's commit_changes call.
Ran(cmd) == \E i \in DOMAIN gitCalls : gitCalls[i].cmd = cmd
RanWith(cmd, returncode) == \E i \in DOMAIN gitCalls : gitCalls[i] = GitCall(cmd, returncode)
DiffFoundChanges == \E i \in DOMAIN gitCalls :
                        gitCalls[i].cmd = "diff" /\ gitCalls[i].returncode # 0

\* C30 as stated: commit_changes returns false only when the staged-diff
\* check exits 0, and every non-zero exit code of the check leads to a commit
\* attempt followed by a force push.
C30_NonZeroCommitsAndPushes ==
    /\ has_changes = "false" => RanWith("diff", 0)
    /\ DiffFoundChanges => (Ran("commit") /\ Ran("push"))

\* C30, amended: commit_changes returns false only when the staged-diff check
\* exits 0; every non-zero exit code of the check, 128 as well as 1, leads to
\* a commit attempt, and the force push follows exactly when that commit
\* succeeded; commit_changes returns true only after the push succeeded.
C30_NonZeroTakesCommitPath ==
    /\ has_changes = "false" =>
          (RanWith("diff", 0) /\ ~Ran("commit") /\ ~Ran("push"))
    /\ DiffFoundChanges => (Ran("commit") /\ has_changes # "false")
    /\ Ran("commit") => DiffFoundChanges
    /\ Ran("push") <=> RanWith("commit", 0)
    /\ RanWith("push", 0) <=> has_changes = "true"
    /\ RanWith("push", 0) =>
          /\ itPushes = <<branch_name>>
          /\ remote[branch_name] = localBranches[branch_name]

C30_Witness ==
    /\ RanWith("diff", 128)
    /\ RanWith("push", 0)
    /\ has_changes = "true"
    /\ pc = "pr"


\* C24: within a pair the events come in one order only: attempted, change
\* detected, branch on the remote by the push, PR opened or existing, then
\* the merge request.  A PR-creation call is made only after the push of the
\* pair's branch has completed, and a merge request is sent only when the PR
\* exists.
C24_EventOrder ==
    /\ (updateOut # "none" \/ gitCalls # <<>>) =>
          (idx >= 1 /\ status[idx] = "ATTEMPTED")
    /\ gitCalls # <<>> => updateOut \in {"changed", "unchanged"}
    /\ Ran("commit") => DiffFoundChanges
    /\ Ran("push") => RanWith("commit", 0)
    /\ (itPrCalls # <<>> \/ pc = "pr") =>
          /\ RanWith("push", 0)
          /\ has_changes = "true"
          /\ branch_name \in DOMAIN remote
          /\ remote[branch_name] = localBranches[branch_name]
    /\ (mergeSent > 0 \/ pc = "merge") =>
          /\ Len(itPrCalls) = 1
          /\ prResp = "created"
          /\ OpenFor(prs, branch_name, BaseBranch) # {}
    /\ (idx >= 1 /\ status[idx] = "PR_OPENED_OR_EXISTING") =>
          OpenFor(prs, branch_name, BaseBranch) # {}

C24_Witness ==
    /\ pc = "merge"
    /\ mergeSent = 1
    /\ RanWith("push", 0)
    /\ Len(itPrCalls) = 1
    /\ status[idx] = "ATTEMPTED"


\* C28: when the PR-creation request succeeded and auto_merge is set, a
\* failure of the merge that follows, the exhausted retry budget included,
\* does not leave create_pull_request: the call returns normally and the
\* pair is not failed by it.
C28_MergeFailureContained ==
    (prResp = "created" /\ autoMerge /\ mergeOutcome.kind = "raised") =>
        /\ prOutcome = "returned"
        /\ exc = NoExc


\* An answer that is neither an error nor 'Please try again later'.
FinalAnswer(raw) == raw.k = "json" /\ raw.message # TryAgain

MergeRequestsBounded ==
    /\ mergeSent <= max_retries
    /\ \A n \in 1..(mergeSent - 1) : ~FinalAnswer(script[n])
    /\ MergeDone => (pc # "merge" /\ mergeOutcome.kind \in {"returned", "raised"})
    /\ pc = "merge" => mergeSent < max_retries

\* C26: whatever the forge answers, one merge call sends at most five merge
\* requests, sends none after the first answer that is neither an error nor
\* 'Please try again later', and ends, by returning or by raising.
C26_MergeBoundedAndTerminates ==
    /\ []MergeRequestsBounded
    /\ <>(pc # "merge" /\ mergeOutcome.kind \in {"returned", "raised"})

C26_Witness ==
    /\ MergeDone
    /\ mergeSent = 3
    /\ script[1] = HttpError(500)
    /\ script[2] = NotReady
    /\ script[3] = Success
    /\ script[4] = Success
    /\ mergeOutcome.kind = "returned"


\* A pair's state moves forward only: discovered, attempted when the loop
\* reaches it, then one terminal state, which it keeps; the loop takes the
\* pairs one after the other.
PairStepsOnce ==
    /\ idx' \in {idx, idx + 1}
    /\ \A k \in DOMAIN pairs :
          status'[k] # status[k] =>
              \/ status[k] = "DISCOVERED" /\ status'[k] = "ATTEMPTED" /\ idx' = k
                    /\ idx = k - 1
              \/ status[k] = "ATTEMPTED" /\ status'[k] \in Terminal /\ idx = k
                    /\ idx' = k

PairsInOrder ==
    \A k \in DOMAIN pairs :
        /\ k < idx => status[k] \in Terminal
        /\ k > idx => status[k] = "DISCOVERED"
        /\ status[k] = "ATTEMPTED" => (k = idx /\ pc \notin {"loop", "done"})

RunDone == pc = "done" /\ idx = Len(pairs) /\ \A k \in DOMAIN pairs : status[k] \in Terminal

\* C25: every discovered pair reaches one terminal state (NO_CHANGE,
\* PR_OPENED_OR_EXISTING or FAILED) and keeps it, the pairs are processed
\* once each in discovery order, and process_flake_updates ends after the
\* last of them.
C25_EveryPairTerminalRunEnds ==
    /\ [][PairStepsOnce]_vars
    /\ []PairsInOrder
    /\ <>[]RunDone

C25_Witness ==
    /\ RunDone
    /\ Len(pairs) = 2
    /\ status[1] = "PR_OPENED_OR_EXISTING"
    /\ status[2] = "NO_CHANGE"

====
